---- MODULE Spec2Model ----
(***************************************************************************)
(* Build orchestration of Cython/Build/Cythonize.py: main, cython_compile, *)
(* run_distutils and _FakePool, with multiprocessing.Pool as the real      *)
(* worker pool.  Process 0 is the calling process; processes 1..parallel   *)
(* are the workers of the real pool, each with its own working directory.  *)
(***************************************************************************)
EXTENDS Integers, Sequences, FiniteSets, TLC

\* ------------------------------------------------------------------ bounds
MaxPatterns == 2      \* source patterns given to main
MaxPaths == 2         \* paths the patterns of one run expand to
MaxUnits == 2         \* compile units cythonize returns for one path
MaxParallel == 2      \* largest value of options.parallel
MaxDepth == 3         \* segments of a path whose ancestors are walked
MaxIter == 5          \* iterations of an ancestor walk that are followed

\* ------------------------------------------------------------- file system
\* A path is the sequence of its segments below "/"; None is the empty one,
\* which is also what Python's "if base_dir:" treats as false.
Root == <<"/">>
None == <<>>

Directories ==
    {Root, <<"/", "a">>, <<"/", "a", "p">>, <<"/", "b">>, <<"/", "w">>}

PackageDirs == {<<"/", "a", "p">>}

\* what extended_iglob + os.path.abspath can yield for a pattern
SamplePaths == {<<"/", "a", "p", "x.pyx">>, <<"/", "b">>}

StartDir == <<"/", "w">>

isdir(p) == p \in Directories

is_package_dir(p) == p \in PackageDirs

dirname(p) == IF Len(p) <= 1 THEN p ELSE SubSeq(p, 1, Len(p) - 1)

RECURSIVE AncestorWalk(_)
AncestorWalk(base_dir) ==
    IF ~isdir(base_dir) \/ is_package_dir(base_dir)
    THEN AncestorWalk(dirname(base_dir))
    ELSE base_dir

\* faulty variant of lines 54-59: the walk is made without build_inplace
BaseDirOf_always(path, inplace) == AncestorWalk(path)

\* cython_compile, lines 54-59
BaseDirOf(path, inplace) == IF inplace THEN AncestorWalk(path) ELSE None

\* ------------------------------------------------------------------- pools
NoPool == [id |-> 0, kind |-> "none"]

Caller == 0

\* ------------------------------------------------------------------- state
VARIABLES
    argv,       \* the command line: number of sources, an unknown flag or not
    walk,       \* the ancestor walks over one path (see the last section)
    options,    \* the parsed options: build, build_inplace, parallel
    pat,        \* index of the pattern main is at (0 before the first)
    pc,         \* position of the calling process
    pool,       \* cython_compile's local variable pool
    exc,        \* exception travelling through cython_compile ("none" if none)
    result,     \* how the last cython_compile ended: "none" or the exception
    paths,      \* log of the paths the loop has handled
    jobs,       \* every run_distutils argument built so far, with its progress
    cwd,        \* working directory of each process
    fs,         \* temporary directories that exist
    poolOps,    \* log of the pool method calls made by cython_compile
    nPools,     \* pool objects created so far
    nUnits      \* compile units returned by cythonize so far

vars == <<argv, walk, options, pat, pc, pool, exc, result, paths, jobs, cwd, fs,
          poolOps, nPools, nUnits>>

Procs == 0..MaxParallel

\* ------------------------------------------------------- dispatch decisions
\* faulty variant of line 79: the build flag is not looked at
WantBuild_ignoring_flag(ext_modules, build) == ext_modules # <<>>

\* line 79
WantBuild(ext_modules, build) == ext_modules # <<>> /\ build

\* faulty variant of line 80: the number of units is not looked at
UsePool_any_count(ext_modules, parallel) == parallel > 1

\* line 80
UsePool(ext_modules, parallel) == Len(ext_modules) > 1 /\ parallel > 1

\* faulty variant of lines 86-87: every job is given the whole list
PoolArgs_whole_list(base_dir, ext_modules) ==
    [i \in 1..Len(ext_modules) |-> <<base_dir, ext_modules>>]

\* faulty variant of lines 86-87: one job for the whole list
PoolArgs_single_job(base_dir, ext_modules) == <<<<base_dir, ext_modules>>>>

\* lines 86-87: the argument list given to pool.map_async
PoolArgs(base_dir, ext_modules) ==
    [i \in 1..Len(ext_modules) |-> <<base_dir, <<ext_modules[i]>>>>]

\* line 89: the argument of the direct run_distutils call
SyncArgs(base_dir, ext_modules) == <<<<base_dir, ext_modules>>>>

\* faulty variant of lines 81-85: a pool is made without looking at pool
EnsurePool_every_time(p, created_ok, id) ==
    [id |-> id, kind |-> IF created_ok THEN "real" ELSE "fake"]

\* lines 81-85: pool stays as it is once set; Pool(...) raising OSError
\* gives a _FakePool instead
EnsurePool(p, created_ok, id) ==
    IF p # NoPool THEN p
    ELSE [id |-> id, kind |-> IF created_ok THEN "real" ELSE "fake"]

NewJob(args, mode, p, pidx) ==
    [pat |-> pat, pidx |-> pidx, base_dir |-> args[1], units |-> args[2],
     mode |-> mode, pool |-> p.id,
     st |-> IF mode = "sync" THEN "start" ELSE "queued",
     proc |-> IF mode = "sync" THEN Caller ELSE -1,
     calls |-> IF mode = "sync" THEN 1 ELSE 0,
     cwd |-> None, temp_dir |-> 0, build_temp |-> 0, exc |-> "none"]

NewJobs(argList, mode, p, pidx) ==
    [i \in 1..Len(argList) |-> NewJob(argList[i], mode, p, pidx)]

Running(j) == jobs[j].st \in {"start", "setup"}

Finished(j) == jobs[j].st \in {"returned", "raised"}

PoolJobs(p) == {j \in DOMAIN jobs : jobs[j].mode # "sync" /\ jobs[j].pool = p.id}

PathsOfPattern(k) == {i \in DOMAIN paths : paths[i].pat = k}

\* no walk is under way
NoWalk ==
    [path |-> None, leafdir |-> FALSE, pkgs |-> {},
     cc |-> [pc |-> "idle", base_dir |-> None, iter |-> 0],
     fpb |-> [pc |-> "idle", base_dir |-> None, package_path |-> <<>>,
              iter |-> 0]]

\* -------------------------------------------------------------------- Init
\* main is entered with a command line that parse_args has not yet seen
Init ==
    /\ argv \in [sources : 0..MaxPatterns, unknown : BOOLEAN]
    /\ walk = NoWalk
    /\ options \in [build : BOOLEAN, build_inplace : BOOLEAN,
                    parallel : 0..MaxParallel]
    /\ pat = 0
    /\ pc = "parse"
    /\ pool = NoPool
    /\ exc = "none"
    /\ result = "none"
    /\ paths = <<>>
    /\ jobs = <<>>
    /\ cwd = [p \in Procs |-> StartDir]
    /\ fs = {}
    /\ poolOps = <<>>
    /\ nPools = 0
    /\ nUnits = 0

\* -------------------------------------------------------------------- main
\* faulty variant of lines 208-221: an empty list of sources is let through
ParseError_empty_accepted(sources, unknown) == unknown

\* parse_args_raw lines 208-210 and parse_args lines 220-221: parser.error
ParseError(sources, unknown) == unknown \/ sources = 0

\* main line 233: parse_args ends the run with a configuration error, or
\* returns the options with build implied by build_inplace (lines 222-223)
ParseArgs ==
    /\ pc = "parse"
    /\ IF ParseError(argv.sources, argv.unknown)
       THEN /\ pc' = "config_error"
            /\ result' = "config"
            /\ options' = options
       ELSE /\ pc' = "main"
            /\ result' = result
            /\ options' = [options EXCEPT
                              !.build = options.build \/ options.build_inplace]
    /\ UNCHANGED <<argv, walk, pat, pool, exc, paths, jobs, cwd, fs, poolOps,
                   nPools, nUnits>>

\* main line 246-247 calling cython_compile, line 50
MainCall ==
    /\ pc = "main"
    /\ pat < argv.sources
    /\ pat' = pat + 1
    /\ pool' = NoPool
    /\ pc' = "call"
    /\ result' = "none"
    /\ UNCHANGED <<argv, walk, options, exc, paths, jobs, cwd, fs, poolOps,
                   nPools, nUnits>>

\* main line 246: the list of patterns is exhausted
MainDone ==
    /\ pc = "main"
    /\ pat >= argv.sources
    /\ pc' = "done"
    /\ UNCHANGED <<argv, walk, options, pat, pool, exc, result, paths, jobs, cwd, fs,
                   poolOps, nPools, nUnits>>

\* line 51: map() over extended_iglob; nothing is raised here when map is lazy
Discover ==
    /\ pc = "call"
    /\ pc' = "loop"
    /\ UNCHANGED <<argv, walk, options, pat, pool, exc, result, paths, jobs, cwd,
                   fs, poolOps, nPools, nUnits>>

\* line 51 with an eager map(): discovery raises before the try statement
DiscoverFails ==
    /\ pc = "call"
    /\ pc' = "raised"
    /\ result' = "discovery"
    /\ UNCHANGED <<argv, walk, options, pat, pool, exc, paths, jobs, cwd, fs,
                   poolOps, nPools, nUnits>>

\* line 53 with a lazy map(): the iterator raises inside the try statement
IterationFails ==
    /\ pc = "loop"
    /\ exc' = "discovery"
    /\ pc' = "except"
    /\ UNCHANGED <<argv, walk, options, pat, pool, result, paths, jobs, cwd, fs,
                   poolOps, nPools, nUnits>>

\* lines 68-77: cythonize raises
TranslationFails ==
    /\ pc = "loop"
    /\ Len(paths) < MaxPaths
    /\ exc' = "translation"
    /\ pc' = "except"
    /\ UNCHANGED <<argv, walk, options, pat, pool, result, paths, jobs, cwd, fs,
                   poolOps, nPools, nUnits>>

\* line 53: the iterator is exhausted, the else clause is next
LoopEnd ==
    /\ pc = "loop"
    /\ pc' = "else"
    /\ UNCHANGED <<argv, walk, options, pat, pool, exc, result, paths, jobs, cwd,
                   fs, poolOps, nPools, nUnits>>

\* lines 53-89: one iteration up to and including the dispatch decision
Iteration ==
    /\ pc = "loop"
    /\ Len(paths) < MaxPaths
    /\ \E path \in SamplePaths, n \in 0..MaxUnits, created_ok \in BOOLEAN :
       \E bad \in 0..n :
         LET base_dir == BaseDirOf(path, options.build_inplace)
             ext_modules == [i \in 1..n |-> [id |-> nUnits + i, bad |-> i = bad]]
             building == WantBuild(ext_modules, options.build)
             pooled == building /\ UsePool(ext_modules, options.parallel)
             p == IF pooled THEN EnsurePool(pool, created_ok, nPools + 1) ELSE pool
             pidx == Len(paths) + 1
             new == IF pooled
                    THEN NewJobs(PoolArgs(base_dir, ext_modules),
                                 IF p.kind = "real" THEN "real" ELSE "fake", p, pidx)
                    ELSE IF building
                    THEN NewJobs(SyncArgs(base_dir, ext_modules), "sync", p, pidx)
                    ELSE <<>>
         IN /\ (pooled /\ pool = NoPool) \/ created_ok
            /\ nUnits' = nUnits + n
            /\ pool' = p
            /\ nPools' = IF p # pool THEN nPools + 1 ELSE nPools
            /\ paths' = Append(paths,
                   [pat |-> pat, path |-> path, base_dir |-> base_dir,
                    ext_modules |-> ext_modules, created |-> p # pool,
                    pool |-> p.id])
            /\ jobs' = jobs \o new
            /\ cwd' = IF p # pool /\ p.kind = "real"
                      THEN [w \in Procs |-> cwd[Caller]]
                      ELSE cwd
            /\ pc' = IF ~building THEN "loop"
                     ELSE IF ~pooled THEN "sync"
                     ELSE IF p.kind = "real" THEN "loop"
                     ELSE "map_async"
    /\ UNCHANGED <<argv, walk, options, pat, exc, result, fs, poolOps>>

\* ----------------------------------------------------------- run_distutils
Proc(j) == jobs[j].proc

\* the native build step: an external collaborator that fails on a bad unit
SetupFails(units) == \E i \in DOMAIN units : units[i].bad

\* faulty variant of lines 116-117: no chdir back
FinallyCwd_no_restore(job, dir) == dir

\* faulty variant of lines 116-117: chdir back only after a build that worked
FinallyCwd_on_success(job, dir) ==
    IF job.base_dir # None /\ job.exc = "none" THEN job.cwd ELSE dir

\* lines 116-117: the working directory the finally clause leaves
FinallyCwd(job, dir) == IF job.base_dir # None THEN job.cwd ELSE dir

\* faulty variant of lines 116-119: cleanup only after a build that worked
FinallyFs_on_success(job, files) ==
    IF job.base_dir # None /\ job.temp_dir # 0 /\ job.temp_dir \in files
       /\ job.exc = "none"
    THEN files \ {job.temp_dir}
    ELSE files

\* lines 116-119: the temporary directories the finally clause leaves
FinallyFs(job, files) ==
    IF job.base_dir # None /\ job.temp_dir # 0 /\ job.temp_dir \in files
    THEN files \ {job.temp_dir}
    ELSE files

\* faulty variant: the failure of a worker's job reaches the dispatcher
Finally_surfacing(j, job, dir, files) ==
    /\ cwd' = [cwd EXCEPT ![job.proc] = FinallyCwd(job, dir)]
    /\ fs' = FinallyFs(job, files)
    /\ jobs' = [jobs EXCEPT ![j] =
                   [job EXCEPT !.st = IF job.exc = "none"
                                      THEN "returned" ELSE "raised"]]
    /\ IF job.exc # "none" /\ pc = "loop"
       THEN pc' = "except" /\ exc' = job.exc
       ELSE IF job.proc # Caller THEN UNCHANGED <<pc, exc>>
       ELSE IF job.exc # "none" THEN pc' = "except" /\ exc' = job.exc
       ELSE IF job.mode = "sync" THEN pc' = "loop" /\ exc' = exc
       ELSE UNCHANGED <<pc, exc>>

\* lines 115-119 for job j, whose record is now job, in a process whose
\* working directory is dir, with the temporary directories files; and where
\* the caller of run_distutils goes next: line 89 returns to the loop or
\* raises into the except clause, _FakePool.map_async (line 28) goes on or
\* raises, a pool worker keeps the outcome to itself
Finally(j, job, dir, files) ==
    /\ cwd' = [cwd EXCEPT ![job.proc] = FinallyCwd(job, dir)]
    /\ fs' = FinallyFs(job, files)
    /\ jobs' = [jobs EXCEPT ![j] =
                   [job EXCEPT !.st = IF job.exc = "none"
                                      THEN "returned" ELSE "raised"]]
    /\ IF job.proc # Caller THEN UNCHANGED <<pc, exc>>
       ELSE IF job.exc # "none" THEN pc' = "except" /\ exc' = job.exc
       ELSE IF job.mode = "sync" THEN pc' = "loop" /\ exc' = exc
       ELSE UNCHANGED <<pc, exc>>

\* faulty variant of lines 106-109: a temporary directory for every job
RdEnter_always_temp(j) ==
    /\ jobs[j].st = "start"
    /\ jobs' = [jobs EXCEPT ![j].st = "setup", ![j].cwd = cwd[Proc(j)],
                            ![j].temp_dir = j, ![j].build_temp = j]
    /\ cwd' = IF jobs[j].base_dir = None THEN cwd
              ELSE [cwd EXCEPT ![Proc(j)] = jobs[j].base_dir]
    /\ fs' = fs \cup {j}
    /\ UNCHANGED <<pc, exc>>
    /\ UNCHANGED <<argv, walk, options, pat, pool, result, paths, poolOps,
                   nPools, nUnits>>

\* lines 101-109: getcwd, then with a base directory chdir and mkdtemp,
\* either of which may raise and so lead to the finally clause; the new
\* directory is named after the job
RdEnter(j) ==
    /\ jobs[j].st = "start"
    /\ LET saved == [jobs[j] EXCEPT !.cwd = cwd[Proc(j)]]
       IN IF saved.base_dir = None
          THEN /\ jobs' = [jobs EXCEPT ![j] = [saved EXCEPT !.st = "setup"]]
               /\ UNCHANGED <<cwd, fs, pc, exc>>
          ELSE \/ /\ jobs' = [jobs EXCEPT ![j] =
                                [saved EXCEPT !.st = "setup", !.temp_dir = j,
                                              !.build_temp = j]]
                  /\ cwd' = [cwd EXCEPT ![Proc(j)] = saved.base_dir]
                  /\ fs' = fs \cup {j}
                  /\ UNCHANGED <<pc, exc>>
               \/ Finally(j, [saved EXCEPT !.exc = "chdir"], cwd[Proc(j)], fs)
               \/ Finally(j, [saved EXCEPT !.exc = "mkdtemp"], saved.base_dir, fs)
    /\ UNCHANGED <<argv, walk, options, pat, pool, result, paths, poolOps, nPools, nUnits>>

\* lines 110-119: setup() returns or raises, and may have removed its
\* build-temp; then the finally clause
RdSetup(j) ==
    /\ jobs[j].st = "setup"
    /\ \E removes \in BOOLEAN :
         /\ removes => jobs[j].build_temp \in fs
         /\ Finally(j,
                    [jobs[j] EXCEPT !.exc = IF SetupFails(jobs[j].units)
                                            THEN "setup" ELSE "none"],
                    cwd[Proc(j)],
                    IF removes THEN fs \ {jobs[j].build_temp} ELSE fs)
    /\ UNCHANGED <<argv, walk, options, pat, pool, result, paths, poolOps, nPools, nUnits>>

\* ------------------------------------------------------------------- pools
Queued(p) == {j \in PoolJobs(p) : jobs[j].st = "queued"}

\* faulty variant: the newest queued job first
LastQueued(p) == CHOOSE j \in Queued(p) : \A k \in Queued(p) : j >= k

\* the order of imap (line 28) and of the pool's task queue: oldest first
FirstQueued(p) == CHOOSE j \in Queued(p) : \A k \in Queued(p) : j <= k

\* _FakePool.map_async, lines 23-29: the calling process runs the jobs one
\* after the other and returns when the list is exhausted
FakeMapAsync ==
    /\ pc = "map_async"
    /\ \A j \in DOMAIN jobs : ~(Running(j) /\ Proc(j) = Caller)
    /\ IF Queued(pool) # {}
       THEN /\ jobs' = [jobs EXCEPT ![FirstQueued(pool)].st = "start",
                                    ![FirstQueued(pool)].proc = Caller,
                                    ![FirstQueued(pool)].calls = @ + 1]
            /\ pc' = pc
       ELSE /\ jobs' = jobs
            /\ pc' = "loop"
    /\ UNCHANGED <<argv, walk, options, pat, pool, exc, result, paths, cwd, fs,
                   poolOps, nPools, nUnits>>

Idle(w) == \A j \in DOMAIN jobs : ~(Running(j) /\ Proc(j) = w)

\* multiprocessing.Pool: an idle worker takes the oldest queued job (the
\* workers are interchangeable: the idle one of lowest number takes it)
WorkerTake(w) ==
    /\ pool.kind = "real"
    /\ w \in 1..options.parallel
    /\ Idle(w)
    /\ \A v \in 1..(w - 1) : ~Idle(v)
    /\ Queued(pool) # {}
    /\ jobs' = [jobs EXCEPT ![FirstQueued(pool)].st = "start",
                            ![FirstQueued(pool)].proc = w,
                            ![FirstQueued(pool)].calls = @ + 1]
    /\ UNCHANGED <<argv, walk, options, pat, pc, pool, exc, result, paths, cwd,
                   fs, poolOps, nPools, nUnits>>

\* what pool.terminate() does to a job of the pool: multiprocessing.Pool
\* kills its workers and drops its queue, _FakePool.terminate is "pass"
Terminated(job) ==
    IF job.mode # "real" THEN job
    ELSE IF job.st = "queued" THEN [job EXCEPT !.st = "abandoned"]
    ELSE IF job.st \in {"start", "setup"}
    THEN [job EXCEPT !.st = "killed"]
    ELSE job

\* faulty variant of lines 90-92: the pool is left alone
ExceptTerminate_skipped ==
    /\ pc = "except"
    /\ pool # NoPool
    /\ pc' = "reraise"
    /\ UNCHANGED <<argv, walk, options, pat, pool, exc, result, paths, jobs, cwd, fs,
                   poolOps, nPools, nUnits>>

\* lines 90-92
ExceptTerminate ==
    /\ pc = "except"
    /\ pool # NoPool
    /\ poolOps' = Append(poolOps, <<pool.id, "terminate">>)
    /\ jobs' = [j \in DOMAIN jobs |->
                   IF j \in PoolJobs(pool) THEN Terminated(jobs[j]) ELSE jobs[j]]
    /\ pc' = "reraise"
    /\ UNCHANGED <<argv, walk, options, pat, pool, exc, result, paths, cwd, fs,
                   nPools, nUnits>>

\* faulty variant of line 93: the exception is dropped and main goes on
Reraise_swallowed ==
    /\ \/ pc = "reraise"
       \/ pc = "except" /\ pool = NoPool
    /\ result' = "none"
    /\ pc' = "main"
    /\ UNCHANGED <<argv, walk, options, pat, pool, exc, paths, jobs, cwd, fs,
                   poolOps, nPools, nUnits>>

\* line 93
Reraise ==
    /\ \/ pc = "reraise"
       \/ pc = "except" /\ pool = NoPool
    /\ result' = exc
    /\ pc' = "raised"
    /\ UNCHANGED <<argv, walk, options, pat, pool, exc, paths, jobs, cwd, fs,
                   poolOps, nPools, nUnits>>

\* lines 94-96
ElseClose ==
    /\ pc = "else"
    /\ IF pool # NoPool
       THEN /\ poolOps' = Append(poolOps, <<pool.id, "close">>)
            /\ pc' = "join"
       ELSE /\ poolOps' = poolOps
            /\ pc' = "main"
    /\ UNCHANGED <<argv, walk, options, pat, pool, exc, result, paths, jobs, cwd,
                   fs, nPools, nUnits>>

\* faulty variant of line 97: join returns at once
JoinReady_at_once(p) == TRUE

\* line 97: multiprocessing.Pool.join returns once its workers have worked
\* off the queue; _FakePool.join is "pass"
JoinReady(p) == p.kind = "real" => \A j \in PoolJobs(p) : Finished(j)

Join ==
    /\ pc = "join"
    /\ JoinReady(pool)
    /\ poolOps' = Append(poolOps, <<pool.id, "join">>)
    /\ pc' = "main"
    /\ UNCHANGED <<argv, walk, options, pat, pool, exc, result, paths, jobs, cwd,
                   fs, nPools, nUnits>>

\* -------------------------------------------------------------------- Next
Next ==
    \/ ParseArgs
    \/ MainCall
    \/ MainDone
    \/ Discover
    \/ DiscoverFails
    \/ IterationFails
    \/ TranslationFails
    \/ LoopEnd
    \/ Iteration
    \/ \E j \in DOMAIN jobs : RdEnter(j)
    \/ \E j \in DOMAIN jobs : RdSetup(j)
    \/ FakeMapAsync
    \/ \E w \in 1..MaxParallel : WorkerTake(w)
    \/ ExceptTerminate
    \/ Reraise
    \/ ElseClose
    \/ Join

Spec == Init /\ [][Next]_vars

\* ------------------------------------------------------- ancestor walks
\* find_package_base (lines 41-46) and the in-place loop of cython_compile
\* (lines 55-57) over one absolute path, step by step, for any package
\* classification of its ancestors.  All proper ancestors of a discovered
\* path are directories; the path itself is a directory or a file.
mainVars == <<argv, options, pat, pc, pool, exc, result, paths, jobs, cwd, fs,
              poolOps, nPools, nUnits>>

Segment(i) == <<"a", "b", "c", "d", "e", "f">>[i]

PathOfDepth(k) == Root \o [i \in 1..k |-> Segment(i)]

Prefixes(path) == {SubSeq(path, 1, n) : n \in 1..Len(path)}

WalkIsDir(p) ==
    /\ p \in Prefixes(walk.path)
    /\ p = walk.path => walk.leafdir

\* Utils.is_package_dir: the directory holds an __init__ file
WalkIsPackageDir(p) == p \in walk.pkgs

\* os.path.split of a normalised absolute path; split("/") is ("/", "")
basename(p) == IF Len(p) <= 1 THEN "" ELSE p[Len(p)]

split(p) == <<dirname(p), basename(p)>>

\* faulty variant of line 45: the parent is put behind the package path
JoinPackagePath_reversed(parent, package_path) == Append(package_path, parent)

\* line 45: '%s/%s' % (parent, package_path), as the list of joined names
JoinPackagePath(parent, package_path) == <<parent>> \o package_path

\* faulty variant of line 56: files are not stepped over
CcLoopTest_no_isdir(base_dir) == WalkIsPackageDir(base_dir)

\* line 56: the loop condition of cython_compile
CcLoopTest(base_dir) == ~WalkIsDir(base_dir) \/ WalkIsPackageDir(base_dir)

\* line 43: the loop condition of find_package_base
FpbLoopTest(base_dir) == WalkIsPackageDir(base_dir)

PathInit ==
    /\ \E k \in 1..MaxDepth, leafdir \in BOOLEAN :
       \E pkgs \in SUBSET Prefixes(PathOfDepth(k)) :
         /\ PathOfDepth(k) \in pkgs => leafdir
         /\ walk = [path |-> PathOfDepth(k), leafdir |-> leafdir, pkgs |-> pkgs,
                    cc |-> [pc |-> "start", base_dir |-> None, iter |-> 0],
                    fpb |-> [pc |-> "start", base_dir |-> None,
                             package_path |-> <<>>, iter |-> 0]]
    /\ argv = [sources |-> 1, unknown |-> FALSE]
    /\ options = [build |-> TRUE, build_inplace |-> TRUE, parallel |-> 0]
    /\ pat = 0
    /\ pc = "parse"
    /\ pool = NoPool
    /\ exc = "none"
    /\ result = "none"
    /\ paths = <<>>
    /\ jobs = <<>>
    /\ cwd = [p \in Procs |-> StartDir]
    /\ fs = {}
    /\ poolOps = <<>>
    /\ nPools = 0
    /\ nUnits = 0

\* line 55
CcStart ==
    /\ walk.cc.pc = "start"
    /\ walk' = [walk EXCEPT !.cc.pc = "test", !.cc.base_dir = walk.path]
    /\ UNCHANGED mainVars

\* lines 56-57: one iteration of the loop
CcStep ==
    /\ walk.cc.pc = "test"
    /\ walk.cc.iter < MaxIter
    /\ CcLoopTest(walk.cc.base_dir)
    /\ walk' = [walk EXCEPT !.cc.base_dir = dirname(walk.cc.base_dir),
                            !.cc.iter = @ + 1]
    /\ UNCHANGED mainVars

\* line 56: the loop is left with base_dir
CcReturn ==
    /\ walk.cc.pc = "test"
    /\ ~CcLoopTest(walk.cc.base_dir)
    /\ walk' = [walk EXCEPT !.cc.pc = "done"]
    /\ UNCHANGED mainVars

\* line 42
FpbStart ==
    /\ walk.fpb.pc = "start"
    /\ walk' = [walk EXCEPT !.fpb.pc = "test",
                            !.fpb.base_dir = split(walk.path)[1],
                            !.fpb.package_path = <<split(walk.path)[2]>>]
    /\ UNCHANGED mainVars

\* lines 43-45: one iteration of the loop
FpbStep ==
    /\ walk.fpb.pc = "test"
    /\ walk.fpb.iter < MaxIter
    /\ FpbLoopTest(walk.fpb.base_dir)
    /\ walk' = [walk EXCEPT
                  !.fpb.base_dir = split(walk.fpb.base_dir)[1],
                  !.fpb.package_path =
                      JoinPackagePath(split(walk.fpb.base_dir)[2], @),
                  !.fpb.iter = @ + 1]
    /\ UNCHANGED mainVars

\* line 46
FpbReturn ==
    /\ walk.fpb.pc = "test"
    /\ ~FpbLoopTest(walk.fpb.base_dir)
    /\ walk' = [walk EXCEPT !.fpb.pc = "done"]
    /\ UNCHANGED mainVars

PathNext ==
    \/ CcStart
    \/ CcStep
    \/ CcReturn
    \/ FpbStart
    \/ FpbStep
    \/ FpbReturn

PathSpec == PathInit /\ [][PathNext]_vars

\* =================================================================== claims
Range(seq) == {seq[i] : i \in DOMAIN seq}

OpsOf(p) == SelectSeq(poolOps, LAMBDA op : op[1] = p.id)

JobsOfPath(i) == SelectSeq(jobs, LAMBDA job : job.pidx = i)

JobsOfPattern(k) == SelectSeq(jobs, LAMBDA job : job.pat = k)

Ended(j) == jobs[j].st \in {"returned", "raised"}

\* C1: a run_distutils call with a base directory leaves, when it returns or
\* raises, the working directory of its process as it was when the call
\* started, whether chdir, mkdtemp or setup succeeded or failed.
C1_CwdRestored ==
    [][\A j \in DOMAIN jobs :
         (jobs[j].base_dir # None /\ Running(j) /\ jobs'[j].st \in {"returned", "raised"})
         => cwd'[jobs[j].proc] = IF jobs[j].st = "start"
                                 THEN cwd[jobs[j].proc]
                                 ELSE jobs[j].cwd]_vars

\* C1 case: a job whose build step failed after it had switched directory
C1_Witness ==
    \E j \in DOMAIN jobs :
        /\ jobs[j].base_dir # None
        /\ jobs[j].base_dir # jobs[j].cwd
        /\ jobs[j].st = "raised"
        /\ jobs[j].exc = "setup"
        /\ cwd[jobs[j].proc] = jobs[j].cwd

\* C2: once a run_distutils call with a base directory has returned or
\* raised, the temporary directory made for it does not exist.
C2_TempDirRemoved ==
    \A j \in DOMAIN jobs :
        (jobs[j].base_dir # None /\ Ended(j)) => j \notin fs

\* C2 case: a job that made its temporary directory and whose build failed
C2_Witness ==
    \E j \in DOMAIN jobs :
        /\ jobs[j].base_dir # None
        /\ jobs[j].temp_dir = j
        /\ jobs[j].st = "raised"
        /\ jobs[j].exc = "setup"
        /\ j \notin fs

\* C3: when an exception leaves cython_compile and a pool was created, the
\* pool was terminated, never closed or joined, and the exception raised is
\* the one that escaped the loop.
C3_TerminateOnError ==
    (pc = "raised" /\ pool # NoPool)
    => /\ OpsOf(pool) = <<<<pool.id, "terminate">>>>
       /\ exc # "none"
       /\ result = exc

\* C3 case: a job run by the calling process failed while a real pool with
\* work in it existed
C3_Witness ==
    /\ pc = "raised"
    /\ pool.kind = "real"
    /\ result = "setup"
    /\ \E j \in PoolJobs(pool) : jobs[j].st \in {"killed", "abandoned"}

\* C4: when cython_compile returns with a pool, the pool was closed, then
\* joined and never terminated, and every job submitted to it has finished.
C4_CloseJoinWaits ==
    (pc \in {"main", "done"} /\ pool # NoPool)
    => /\ OpsOf(pool) = <<<<pool.id, "close">>, <<pool.id, "join">>>>
       /\ \A j \in PoolJobs(pool) : Ended(j)

\* C4 case: a return with a real pool one of whose jobs failed
C4_Witness ==
    /\ pc = "main"
    /\ pool.kind = "real"
    /\ \E j \in PoolJobs(pool) : jobs[j].st = "raised"
    /\ \E j \in PoolJobs(pool) : jobs[j].st = "returned"

\* the paths whose units go to the pool: at least 2 units, build enabled,
\* parallelism degree above 1
PooledPaths ==
    {i \in DOMAIN paths : /\ Len(paths[i].ext_modules) >= 2
                          /\ options.build
                          /\ options.parallel > 1}

\* the pool got one job per unit of path i, each with that unit alone and
\* the base directory of the path
OneJobPerUnit(i) ==
    LET js == JobsOfPath(i)
        units == paths[i].ext_modules
    IN /\ Len(js) = Len(units)
       /\ \A k \in DOMAIN js :
            /\ js[k].units = <<units[k]>>
            /\ js[k].base_dir = paths[i].base_dir
            /\ js[k].mode # "sync"
            /\ js[k].pool = paths[i].pool
            /\ js[k].pool # 0

\* the calling process is running a job that was submitted to a pool
CallerRunsPoolJob ==
    \E j \in DOMAIN jobs :
        jobs[j].mode # "sync" /\ Running(j) /\ jobs[j].proc = Caller

\* C5 as stated: one job per unit of every pooled path, and with either pool
\* the dispatcher never waits in the loop for a submitted job.
C5_Original ==
    /\ \A i \in PooledPaths : OneJobPerUnit(i)
    /\ ~CallerRunsPoolJob
    /\ pc # "map_async"

\* C5 amended: one job per unit of every pooled path with either pool; with
\* the real pool the dispatcher never waits in the loop for a submitted job,
\* with the fallback pool every submitted job has finished (or the loop has
\* been left by its exception) when the dispatcher goes on.
C5_OneJobPerUnit ==
    /\ \A i \in PooledPaths : OneJobPerUnit(i)
    /\ pool.kind = "real" => ~CallerRunsPoolJob /\ pc # "map_async"
    /\ (pool.kind = "fake" /\ pc \in {"loop", "sync", "else", "join", "main", "done"})
       => \A j \in PoolJobs(pool) : Ended(j)
    /\ \A j \in DOMAIN jobs : jobs[j].mode = "real" => jobs[j].proc # Caller

\* C5 case: the dispatcher has handled a later path while jobs of an earlier
\* pooled path are still queued or running in the real pool
C5_Witness ==
    \E i \in PooledPaths :
        /\ i < Len(paths)
        /\ pool.kind = "real"
        /\ OneJobPerUnit(i)
        /\ \E j \in DOMAIN jobs : jobs[j].pidx = i /\ ~Ended(j)

\* what a run with parallelism degree <= 1 hands to run_distutils for the
\* paths of pattern k: one call per path that has units
RECURSIVE SequentialArgs(_, _)
SequentialArgs(k, n) ==
    IF n = 0 THEN <<>>
    ELSE LET r == paths[n]
         IN IF r.pat = k /\ r.ext_modules # <<>> /\ options.build
            THEN Append(SequentialArgs(k, n - 1), <<r.base_dir, r.ext_modules>>)
            ELSE SequentialArgs(k, n - 1)

ArgsOf(js) == [i \in DOMAIN js |-> <<js[i].base_dir, js[i].units>>]

RECURSIVE UnitsOf(_)
UnitsOf(args) ==
    IF args = <<>> THEN <<>>
    ELSE UnitsOf(SubSeq(args, 1, Len(args) - 1))
         \o [i \in DOMAIN args[Len(args)][2] |->
                <<args[Len(args)][1], args[Len(args)][2][i]>>]

\* C6 as stated: with the fallback pool the run_distutils calls are those of
\* a run with parallelism degree <= 1, with the same grouping of the units.
C6_Original ==
    pool.kind = "fake"
    => ArgsOf(JobsOfPattern(pat)) = SequentialArgs(pat, Len(paths))

\* C6 amended: with the fallback pool the jobs hold the units of the
\* sequential run with the same base directories in the same order, one unit
\* per job for a pooled path; they all run in the calling process, one after
\* the other in that order; and a job that raises ends the loop with its
\* exception, as a direct call does.
C6_FallbackSequential ==
    pool.kind = "fake"
    => LET js == JobsOfPattern(pat)
       IN /\ UnitsOf(ArgsOf(js)) = UnitsOf(SequentialArgs(pat, Len(paths)))
          /\ \A i \in PooledPaths : paths[i].pat = pat => OneJobPerUnit(i)
          /\ \A a \in DOMAIN js :
               /\ js[a].proc \in {Caller, -1}
               /\ js[a].st \in {"queued", "start", "setup", "returned", "raised"}
               /\ \A b \in DOMAIN js :
                    (a < b /\ js[b].st # "queued") => js[a].st = "returned"
               /\ js[a].st = "raised"
                  => /\ pc \in {"except", "reraise", "raised"}
                     /\ exc = js[a].exc
                     /\ pc = "raised" => result = js[a].exc
          /\ pc \in {"main", "done"} => \A a \in DOMAIN js : js[a].st = "returned"

\* C6 case: the fallback pool took a path of two units and the first job
\* failed, so the second never ran and the exception left cython_compile
C6_Witness ==
    /\ pool.kind = "fake"
    /\ pc = "raised"
    /\ \E j \in PoolJobs(pool) :
         /\ jobs[j].st = "raised"
         /\ j + 1 \in PoolJobs(pool)
         /\ jobs[j + 1].st = "queued"
         /\ result = jobs[j].exc

\* the paths built by one direct call: build enabled and exactly 1 unit, or
\* any units at all with parallelism degree <= 1
DirectPaths ==
    {i \in DOMAIN paths :
        /\ options.build
        /\ \/ Len(paths[i].ext_modules) = 1
           \/ Len(paths[i].ext_modules) >= 1 /\ options.parallel <= 1}

\* C7: for a path with build enabled and exactly 1 unit, or with units and
\* parallelism degree <= 1, there is exactly one job, holding all units of
\* the path in translator order, run by the calling process while the loop
\* waits; no pool is created for it and nothing is submitted to a pool.
C7_SingleSyncJob ==
    /\ \A i \in DirectPaths :
         LET js == JobsOfPath(i)
         IN /\ Len(js) = 1
            /\ js[1].units = paths[i].ext_modules
            /\ js[1].base_dir = paths[i].base_dir
            /\ js[1].mode = "sync"
            /\ js[1].proc = Caller
            /\ js[1].st # "queued"
            /\ ~paths[i].created
    /\ \A j \in DOMAIN jobs :
         (jobs[j].mode = "sync" /\ Running(j)) => pc = "sync" /\ jobs[j].pidx = Len(paths)

\* C7 case: a path with a single unit was built directly although the
\* parallelism degree is above 1 and a pool exists
C7_Witness ==
    \E i \in DirectPaths :
        /\ options.parallel > 1
        /\ pool # NoPool
        /\ paths[i].pool = pool.id
        /\ Len(JobsOfPath(i)) = 1
        /\ JobsOfPath(i)[1].st = "returned"

\* C8: the iteration for a path with no units, or with building not
\* requested, starts no job, creates no temporary directory, changes no
\* working directory, creates no pool and submits nothing.
C8_NoBuildNoEffect ==
    [][(/\ Len(paths') = Len(paths) + 1
        /\ \/ paths'[Len(paths')].ext_modules = <<>>
           \/ ~options.build)
       => /\ UNCHANGED <<jobs, fs, cwd, pool, nPools, poolOps>>
          /\ ~paths'[Len(paths')].created
          /\ pc' = "loop"]_vars

\* C8 case: a path without units was handled with building and parallelism
\* requested, and a path with units was handled without building
C8_Witness ==
    \/ /\ options.build
       /\ options.parallel > 1
       /\ pool # NoPool
       /\ paths # <<>>
       /\ paths[Len(paths)].ext_modules = <<>>
       /\ JobsOfPath(Len(paths)) = <<>>
    \/ /\ ~options.build
       /\ options.parallel > 1
       /\ paths # <<>>
       /\ Len(paths[Len(paths)].ext_modules) >= 2
       /\ jobs = <<>>

\* C9 as stated: in one run of main at most one pool is created and all
\* pool jobs go to it.
C9_Original ==
    /\ nPools <= 1
    /\ \A j, k \in DOMAIN jobs :
         (jobs[j].mode # "sync" /\ jobs[k].mode # "sync") => jobs[j].pool = jobs[k].pool

\* C9 amended: in one call of cython_compile (one source pattern) at most
\* one pool is created and all pool jobs of that call go to it; the call for
\* a later pattern starts without a pool and creates its own, once the pools
\* before it have been closed and joined with all their jobs finished.
C9_OnePoolPerCall ==
    /\ \A k \in 1..pat :
         /\ Cardinality({i \in PathsOfPattern(k) : paths[i].created}) <= 1
         /\ \A a, b \in DOMAIN jobs :
              (/\ jobs[a].pat = k /\ jobs[b].pat = k
               /\ jobs[a].mode # "sync" /\ jobs[b].mode # "sync")
              => jobs[a].pool = jobs[b].pool /\ jobs[a].pool # 0
    /\ \A a, b \in DOMAIN jobs :
         (jobs[a].mode # "sync" /\ jobs[b].mode # "sync" /\ jobs[a].pat # jobs[b].pat)
         => jobs[a].pool # jobs[b].pool
    /\ \A j \in DOMAIN jobs :
         (jobs[j].mode # "sync" /\ jobs[j].pool # pool.id)
         => /\ Ended(j)
            /\ <<jobs[j].pool, "join">> \in Range(poolOps)
    /\ nPools <= pat

\* C9 case: two pooled paths of one pattern share the pool of the call
C9_Witness ==
    \E a, b \in PooledPaths :
        /\ a < b
        /\ paths[a].pat = paths[b].pat
        /\ paths[a].created
        /\ ~paths[b].created
        /\ paths[b].pool = paths[a].pool
        /\ OneJobPerUnit(b)

\* the compile units cythonize has returned so far
AllUnits == UNION {Range(paths[i].ext_modules) : i \in DOMAIN paths}

JobsWith(u) == {j \in DOMAIN jobs : u \in Range(jobs[j].units)}

\* C10: every compile unit is in at most one job, once, and no job is
\* handed to run_distutils more than once.
C10_BuiltAtMostOnce ==
    /\ \A u \in AllUnits : Cardinality(JobsWith(u)) <= 1
    /\ \A j \in DOMAIN jobs :
         /\ jobs[j].calls <= 1
         /\ Range(jobs[j].units) \subseteq AllUnits
         /\ \A a, b \in DOMAIN jobs[j].units :
              jobs[j].units[a] = jobs[j].units[b] => a = b
         /\ jobs[j].st \notin {"queued", "abandoned"} => jobs[j].calls = 1
    /\ \A a, b \in DOMAIN paths :
         a # b => Range(paths[a].ext_modules) \cap Range(paths[b].ext_modules) = {}

\* C10 case: a direct job and a job of the pool have both been run
C10_Witness ==
    \E a, b \in DOMAIN jobs :
        /\ jobs[a].mode = "sync"
        /\ jobs[b].mode = "real"
        /\ jobs[a].st = "returned"
        /\ jobs[b].st = "returned"
        /\ jobs[a].calls = 1
        /\ jobs[b].calls = 1

JobExceptions == {"chdir", "mkdtemp", "setup"}

Aborting == pc \in {"except", "reraise", "raised"}

\* C11: a failure raised by a job run directly leaves run_distutils and
\* cython_compile unchanged and ends the run: no further path is translated
\* or built and no further pattern is started.
C11_SyncFailureAborts ==
    \A j \in DOMAIN jobs :
        (jobs[j].mode = "sync" /\ jobs[j].st = "raised")
        => /\ Aborting
           /\ exc = jobs[j].exc
           /\ pc = "raised" => result = jobs[j].exc
           /\ Len(paths) = jobs[j].pidx
           /\ pat = jobs[j].pat
           /\ j = Len(jobs)

\* C11 case: the direct job of the first path of the first of two patterns
\* has failed and the exception has left cython_compile
C11_Witness ==
    \E j \in DOMAIN jobs :
        /\ jobs[j].mode = "sync"
        /\ jobs[j].st = "raised"
        /\ jobs[j].exc = "setup"
        /\ pc = "raised"
        /\ result = "setup"
        /\ pat < argv.sources
        /\ Len(paths) < MaxPaths

\* C12 as stated: with either pool, no failure of a job that was submitted
\* to the pool reaches the dispatcher.
C12_Original ==
    exc \in JobExceptions
    => \E j \in DOMAIN jobs :
         jobs[j].mode = "sync" /\ jobs[j].st = "raised" /\ jobs[j].exc = exc

\* C12 amended: a failure of a job run by a worker of the real pool never
\* reaches the dispatcher; every job failure that does reach it was raised
\* by a job the calling process ran itself, directly or in the fallback
\* pool, whose map_async lets the failure of a job through and so ends
\* cython_compile with it.
C12_PoolFailures ==
    /\ exc \in JobExceptions
       => \E j \in DOMAIN jobs :
            /\ jobs[j].proc = Caller
            /\ jobs[j].mode \in {"sync", "fake"}
            /\ jobs[j].st = "raised"
            /\ jobs[j].exc = exc
    /\ \A j \in DOMAIN jobs :
         /\ jobs[j].mode = "real" => jobs[j].proc # Caller
         /\ (jobs[j].mode = "fake" /\ jobs[j].st = "raised")
            => Aborting /\ exc = jobs[j].exc
    /\ (~Aborting /\ pc # "config_error") => exc = "none"

\* C12 case: every job of a real pool failed, the dispatcher handled a later
\* path all the same, and the run ended without an exception
C12_Witness ==
    /\ pc = "done"
    /\ result = "none"
    /\ exc = "none"
    /\ pool.kind = "real"
    /\ \A j \in PoolJobs(pool) : jobs[j].st = "raised"
    /\ \E j \in PoolJobs(pool) : jobs[j].pidx < Len(paths)

\* C13: the base directory of every path and of every job is None exactly
\* when the build is not in place; a job without one never leaves the
\* working directory it started in, and an in-place one is a directory.
C13_BaseDirIffInplace ==
    /\ \A i \in DOMAIN paths :
         /\ paths[i].base_dir = None <=> ~options.build_inplace
         /\ options.build_inplace
            => /\ paths[i].base_dir # None
               /\ isdir(paths[i].base_dir)
    /\ \A j \in DOMAIN jobs :
         /\ jobs[j].base_dir = paths[jobs[j].pidx].base_dir
         /\ (jobs[j].base_dir = None /\ jobs[j].st = "setup")
            => cwd[jobs[j].proc] = jobs[j].cwd

\* C13 case: a job without base directory is inside the build step, and an
\* in-place job of a file in a package is inside it in the package's parent
C13_Witness ==
    \E j \in DOMAIN jobs :
        /\ jobs[j].st = "setup"
        /\ \/ /\ ~options.build_inplace
              /\ jobs[j].base_dir = None
              /\ cwd[jobs[j].proc] = StartDir
           \/ /\ options.build_inplace
              /\ jobs[j].base_dir = <<"/", "a">>
              /\ cwd[jobs[j].proc] = <<"/", "a">>

\* the number of nested package directories right above the last segment
NestedPackages(path) ==
    Cardinality({m \in 1..(Len(path) - 1) :
                    \A q \in 1..m : SubSeq(path, 1, Len(path) - q) \in walk.pkgs})

\* the chain of packages lies below a directory that is not a package
BelowNonPackage(path) == NestedPackages(path) <= Len(path) - 2

\* C14 as stated: with N nested packages above the leaf find_package_base
\* returns the ancestor N levels above the leaf and the N consumed names.
C14_Original ==
    (walk.fpb.pc = "done" /\ BelowNonPackage(walk.path))
    => LET n == NestedPackages(walk.path)
           len == Len(walk.path)
       IN /\ walk.fpb.base_dir = SubSeq(walk.path, 1, len - n)
          /\ walk.fpb.package_path = SubSeq(walk.path, len - n, len - 1)

\* C14 amended: with N nested packages above the leaf find_package_base
\* returns the directory N levels above the direct parent of the leaf, and
\* the names of the N packages, top-down, followed by the last segment.
C14_PackageBase ==
    (walk.fpb.pc = "done" /\ BelowNonPackage(walk.path))
    => LET n == NestedPackages(walk.path)
           len == Len(walk.path)
       IN /\ walk.fpb.base_dir = SubSeq(walk.path, 1, len - 1 - n)
          /\ walk.fpb.package_path = SubSeq(walk.path, len - n, len)
          /\ Len(walk.fpb.package_path) = n + 1
          /\ walk.fpb.iter = n
          /\ walk.fpb.base_dir \o walk.fpb.package_path = walk.path

\* C14 case: a leaf inside two nested packages
C14_Witness ==
    /\ walk.fpb.pc = "done"
    /\ BelowNonPackage(walk.path)
    /\ NestedPackages(walk.path) = 2
    /\ walk.fpb.base_dir = PathOfDepth(Len(walk.path) - 4)
    /\ Len(walk.fpb.package_path) = 3

\* C15: with no source, or with an unknown flag, parse_args ends the run with
\* the configuration error before anything is discovered, translated or
\* built and before any pool exists, and nothing of it happens later.
C15_ConfigErrorFirst ==
    (argv.sources = 0 \/ argv.unknown)
    => /\ pc \in {"parse", "config_error"}
       /\ pc = "config_error" => result = "config"
       /\ pat = 0
       /\ paths = <<>>
       /\ jobs = <<>>
       /\ nPools = 0
       /\ nUnits = 0
       /\ poolOps = <<>>
       /\ fs = {}
       /\ pool = NoPool
       /\ cwd[Caller] = StartDir

\* C15 case: a command line without sources was rejected
C15_Witness ==
    /\ argv.sources = 0
    /\ ~argv.unknown
    /\ pc = "config_error"
    /\ result = "config"

BothDone == walk.cc.pc = "done" /\ walk.fpb.pc = "done"

NonPackageDirLeaf == walk.leafdir /\ walk.path \notin walk.pkgs

\* C17 as stated: for every kind of path the in-place loop of cython_compile
\* ends at the base directory find_package_base returns.
C17_Original == BothDone => walk.cc.base_dir = walk.fpb.base_dir

\* C17 amended: for a file and for a package directory the in-place loop of
\* cython_compile ends at the base directory find_package_base returns, the
\* nearest ancestor that is not a package; for a directory that is not a
\* package it ends at that directory itself, which find_package_base never
\* returns.
C17_SameBaseDir ==
    BothDone
    => /\ ~NonPackageDirLeaf
          => /\ walk.cc.base_dir = walk.fpb.base_dir
             /\ walk.cc.base_dir # walk.path
       /\ NonPackageDirLeaf
          => /\ walk.cc.base_dir = walk.path
             /\ walk.fpb.base_dir # walk.path
             /\ Len(walk.fpb.base_dir) < Len(walk.path)
       /\ WalkIsDir(walk.cc.base_dir)
       /\ ~WalkIsPackageDir(walk.cc.base_dir)
       /\ ~WalkIsPackageDir(walk.fpb.base_dir)
       /\ \A n \in (Len(walk.cc.base_dir) + 1)..(Len(walk.path) - 1) :
            WalkIsPackageDir(SubSeq(walk.path, 1, n))

\* C17 case: a file inside a package, both walks ended above the package
C17_Witness ==
    /\ BothDone
    /\ ~walk.leafdir
    /\ NestedPackages(walk.path) >= 1
    /\ walk.cc.base_dir = walk.fpb.base_dir
    /\ Len(walk.cc.base_dir) = Len(walk.path) - 1 - NestedPackages(walk.path)

\* C18: no step of a job without base directory changes a working directory
\* or the set of temporary directories, and the job has neither a temporary
\* directory nor a build-temp argument.
C18_NoBaseDirNoEffect ==
    [][\A j \in DOMAIN jobs :
         (jobs[j].base_dir = None /\ jobs'[j] # jobs[j])
         => /\ cwd' = cwd
            /\ fs' = fs
            /\ jobs'[j].temp_dir = 0
            /\ jobs'[j].build_temp = 0
            /\ jobs'[j].base_dir = None]_vars

\* C18 case: a job without base directory has gone through the build step
C18_Witness ==
    \E j \in DOMAIN jobs :
        /\ jobs[j].base_dir = None
        /\ jobs[j].st = "returned"
        /\ jobs[j].cwd = StartDir
        /\ cwd[jobs[j].proc] = StartDir
        /\ jobs[j].build_temp = 0
        /\ fs = {}

Switched(j) == jobs[j].st = "setup" /\ jobs[j].base_dir # None

\* C19: in each process at most one job is running, so at most one is inside
\* its directory switch; the working directory of the calling process
\* differs from the one main started in only while a job of its own is
\* inside its switch, so never at a dispatch step.
C19_OneSwitchPerProcess ==
    /\ \A p \in Procs :
         Cardinality({j \in DOMAIN jobs : Running(j) /\ jobs[j].proc = p}) <= 1
    /\ cwd[Caller] # StartDir
       => \E j \in DOMAIN jobs :
            /\ jobs[j].proc = Caller
            /\ Switched(j)
            /\ cwd[Caller] = jobs[j].base_dir
    /\ pc \in {"call", "loop", "else", "join", "main", "done", "except",
               "reraise", "raised"}
       => /\ cwd[Caller] = StartDir
          /\ \A j \in DOMAIN jobs : Running(j) => jobs[j].proc # Caller

\* C19 case: the dispatcher is at a dispatch step in its own directory while
\* two workers are inside their switches
C19_Witness ==
    /\ pc = "loop"
    /\ cwd[Caller] = StartDir
    /\ \E a, b \in DOMAIN jobs :
         /\ a # b
         /\ Switched(a) /\ Switched(b)
         /\ jobs[a].proc # jobs[b].proc
         /\ cwd[jobs[a].proc] = jobs[a].base_dir
         /\ cwd[jobs[b].proc] = jobs[b].base_dir

\* C20: neither walk makes more iterations than the path has segments, and
\* each ends at a directory that is not a package.
C20_WalksTerminate ==
    /\ walk.cc.iter <= Len(walk.path)
    /\ walk.fpb.iter <= Len(walk.path)
    /\ walk.cc.pc = "done" => ~WalkIsPackageDir(walk.cc.base_dir)
    /\ walk.fpb.pc = "done" => ~WalkIsPackageDir(walk.fpb.base_dir)

====
